---- MODULE Spec2Model ----
(***************************************************************************)
(* Recipe Explorer backend (recipe_backend/src/api): registration, login,  *)
(* bearer-token identity resolution, recipe CRUD and the favorites         *)
(* relation.                                                               *)
(*                                                                         *)
(* The store is modelled as its three tables with the constraints that     *)
(* db_models.py declares (primary keys, the unique email, the foreign keys *)
(* of the favorites association table).  register, delete_recipe,          *)
(* add_favorite and remove_favorite read, decide and then commit; each is  *)
(* two steps, split at db.commit(), so that other requests may commit in   *)
(* between.  The other handlers are one step each.  Library calls          *)
(* (passlib, python-jose, SQLAlchemy, FastAPI routing) are modelled by     *)
(* their contract as the handlers use them: jwt.decode as the check of     *)
(* signature and expiry, a relationship attribute as the rows it stands    *)
(* for.  browse_recipes is modelled without a search string.               *)
(***************************************************************************)
EXTENDS Integers, Sequences, FiniteSets, Bags, TLC

VARIABLES
    users,        \* table users: sequence of rows, row i has id i
    recipes,      \* table recipes: function from the ids present to rows
    recipeSeq,    \* last id handed out by the recipes id sequence
    favorites,    \* table favorites: bag of rows <<user_id, recipe_id>>
    pending,      \* bag of requests that passed their checks, not yet committed
    now,          \* datetime.utcnow(), in minutes
    issued,       \* the last token made by create_access_token, with its arguments
    registered,   \* email -> id returned by register (0: none yet)
    resp          \* the last response sent

vars == <<users, recipes, recipeSeq, favorites, pending, now, issued, registered, resp>>

----------------------------------------------------------------------------
(* Bounds of the model *)

MaxUsers == 2
MaxRecipes == 2
MaxRecipesConcurrent == 1
MaxInflight == 2
MaxTicks == 3

(* Program constants *)

ACCESS_TOKEN_EXPIRE_MINUTES == 60 * 24 * 7
JWT_SECRET == "SECRET_KEY_CHANGE_ME"
MinPasswordLength == 6
DefaultLimit == 20

(* Input domains *)

Emails == {"a@x.org", "b@x.org"}
\* a password is its sequence of characters; the last one is too short
Passwords == {<<1, 1, 1, 1, 1, 1>>, <<1, 1, 1, 1, 1, 2>>, <<1, 2>>}
UserIds == 1..MaxUsers
RecipeIds == 1..MaxRecipes
TickMinutes == ACCESS_TOKEN_EXPIRE_MINUTES \div 2
\* expires_delta arguments: <<m>> is timedelta(minutes=m), NoDelta the omitted
\* argument (None)
NoDelta == <<>>
Deltas == {<<-TickMinutes>>, <<0>>, <<TickMinutes>>}

----------------------------------------------------------------------------
(* auth.py *)

\* pwd_context.hash: the digest embeds the scheme and what verify needs
hash_password(password) == [scheme |-> "bcrypt", digest |-> password]

verify_password(password, hashed) ==
    hashed.scheme = "bcrypt" /\ hashed.digest = password

\* The Authorization header carried no bearer token
NoToken == [key |-> "", sub |-> 0, exp |-> 0]

\* jwt.encode: the claims signed with the key
jwt_encode(claims, key) == [key |-> key, sub |-> claims.sub, exp |-> claims.exp]

\* timedelta truthiness: timedelta(0) is falsy, like None
Truthy(expires_delta) == expires_delta # NoDelta /\ expires_delta[1] # 0

create_access_token(data, expires_delta, utcnow) ==
    LET expire == IF Truthy(expires_delta)
                  THEN utcnow + expires_delta[1]
                  ELSE utcnow + ACCESS_TOKEN_EXPIRE_MINUTES
    IN  jwt_encode([sub |-> data.sub, exp |-> expire], JWT_SECRET)

\* Variant of jwt_decode_ok: the expiry comparison the wrong way round
jwt_decode_ok_inverted(token, utcnow) ==
    /\ token.key = JWT_SECRET
    /\ ~(token.exp > utcnow)

\* jwt.decode succeeds: signature made with the secret, expiry not passed
jwt_decode_ok(token, utcnow) ==
    /\ token.key = JWT_SECRET
    /\ ~(token.exp < utcnow)

\* select(User).where(User.id == user_id).scalar_one_or_none(); 0 is None
UserById(us, user_id) == IF user_id \in 1..Len(us) THEN user_id ELSE 0

\* The id of the resolved user, or 0 for HTTPException(401)
get_current_user(us, token, utcnow) ==
    IF token = NoToken THEN 0
    ELSE IF ~jwt_decode_ok(token, utcnow) THEN 0
    ELSE IF token.sub = 0 THEN 0
    ELSE UserById(us, token.sub)

\* A token signed with key for subject sub that expires at exp
Token(key, sub, exp) == [key |-> key, sub |-> sub, exp |-> exp]

FarFuture == (MaxTicks + 3) * TickMinutes

\* Bearer tokens that resolve to a user once that user is registered
UserTokens == {Token(JWT_SECRET, u, FarFuture) : u \in UserIds}

\* Bearer tokens a request may carry: none, signed with another key, expired,
\* without subject, for a user id that is not in the table, for a user
TokenDomain ==
    {NoToken,
     Token("other-key", 1, FarFuture),
     Token(JWT_SECRET, 1, -TickMinutes),
     Token(JWT_SECRET, 0, FarFuture),
     Token(JWT_SECRET, MaxUsers + 1, FarFuture)} \cup UserTokens

----------------------------------------------------------------------------
(* Responses and in-flight requests *)

NoBody == <<>>

\* A response: the handler that made it, the status code, the user the request
\* resolved to (0: none) and the recipe or user id it is about; the other fields
\* are filled in by the handlers that have them
Status(op, status, actor, rid) ==
    [op |-> op, status |-> status, actor |-> actor, rid |-> rid,
     email |-> "", password |-> <<>>, path |-> "", token |-> NoToken,
     items |-> NoBody, total |-> 0]

\* A response with a body of RecipeResponse items
Listing(op, status, actor, rid, items) ==
    [Status(op, status, actor, rid) EXCEPT !.items = items, !.total = Len(items)]

Request(op, user, rid, email, password, fields) ==
    [op |-> op, user |-> user, rid |-> rid, email |-> email,
     password |-> password, fields |-> fields]

NoFields == [title |-> "", description |-> "", ingredients |-> <<>>, instructions |-> <<>>]

Inflight == BagCardinality(pending)

Begin(req) == pending' = pending (+) SetToBag({req})
Finish(req) == pending' = pending (-) SetToBag({req})

----------------------------------------------------------------------------
(* auth_router.py *)

\* select(User).where(User.email == email): the ids of the rows found
UsersByEmail(us, email) == {i \in 1..Len(us) : us[i].email = email}

\* Variant of EmailUnique: the column without its unique constraint
EmailUnconstrained(us, email) == TRUE

\* Column(String, unique=True): the INSERT is rejected when the email is taken
EmailUnique(us, email) == UsersByEmail(us, email) = {}

\* pydantic UserCreate: password min_length=6
ValidUserCreate(email, password) == Len(password) >= MinPasswordLength

\* register up to the commit: validation, the existence check, the hash
RegisterCheck(email, password) ==
    /\ IF ~ValidUserCreate(email, password)
       THEN /\ resp' = Status("register", 422, 0, 0)
            /\ UNCHANGED pending
       ELSE IF UsersByEmail(users, email) # {}
       THEN /\ resp' = [Status("register", 400, 0, 0) EXCEPT !.email = email]
            /\ UNCHANGED pending
       ELSE /\ Begin(Request("register", 0, 0, email, hash_password(password), NoFields))
            /\ UNCHANGED resp
    /\ UNCHANGED <<users, recipes, recipeSeq, favorites, now, issued, registered>>

\* register from db.commit() on: the INSERT, then the response
RegisterCommit(req) ==
    /\ req.op = "register"
    /\ BagIn(req, pending)
    /\ Finish(req)
    /\ Len(users) < MaxUsers \/ ~EmailUnique(users, req.email)
    /\ IF EmailUnique(users, req.email)
       THEN /\ users' = Append(users, [email |-> req.email,
                                       hashed_password |-> req.password,
                                       is_active |-> TRUE])
            /\ registered' = [registered EXCEPT ![req.email] = Len(users) + 1]
            /\ resp' = [Status("register", 201, 0, Len(users) + 1)
                           EXCEPT !.email = req.email]
       ELSE /\ resp' = [Status("register", 500, 0, 0) EXCEPT !.email = req.email]
            /\ UNCHANGED <<users, registered>>
    /\ UNCHANGED <<recipes, recipeSeq, favorites, now, issued>>

login(email, password) ==
    /\ LET found == UsersByEmail(users, email)
           db_user == IF found = {} THEN 0 ELSE CHOOSE i \in found : TRUE
       IN  IF db_user = 0 \/ ~verify_password(password, users[db_user].hashed_password)
           THEN /\ resp' = [Status("login", 401, 0, 0)
                               EXCEPT !.email = email, !.password = password]
                /\ UNCHANGED issued
           ELSE LET token == create_access_token([sub |-> db_user], NoDelta, now)
                IN  /\ issued' = [token |-> token, delta |-> NoDelta, iat |-> now,
                                  email |-> email]
                    /\ resp' = [Status("login", 200, 0, 0)
                                   EXCEPT !.email = email, !.password = password,
                                          !.token = token]
    /\ UNCHANGED <<users, recipes, recipeSeq, favorites, pending, now, registered>>

\* GET /auth/me
get_me(token) ==
    /\ LET current_user == get_current_user(users, token, now)
       IN  IF current_user = 0
           THEN resp' = [Status("get_me", 401, 0, 0) EXCEPT !.token = token]
           ELSE resp' = [Status("get_me", 200, current_user, current_user)
                            EXCEPT !.email = users[current_user].email, !.token = token]
    /\ UNCHANGED <<users, recipes, recipeSeq, favorites, pending, now, issued, registered>>

\* The clock moves on
Tick ==
    /\ now < MaxTicks * TickMinutes
    /\ now' = now + TickMinutes
    /\ UNCHANGED <<users, recipes, recipeSeq, favorites, pending, issued, registered, resp>>

\* A caller of create_access_token that passes expires_delta
IssueToken(user_id, expires_delta) ==
    /\ issued' = [token |-> create_access_token([sub |-> user_id], expires_delta, now),
                  delta |-> expires_delta, iat |-> now, email |-> ""]
    /\ UNCHANGED <<users, recipes, recipeSeq, favorites, pending, now, registered, resp>>

----------------------------------------------------------------------------
(* recipe_router.py: the routes, in the order the decorators register them *)

Lit(text) == [param |-> FALSE, text |-> text]
Param == [param |-> TRUE, text |-> ""]

\* A path segment of a request: an integer or a word
IntSeg(n) == [isInt |-> TRUE, n |-> n, text |-> ""]
WordSeg(text) == [isInt |-> FALSE, n |-> 0, text |-> text]

Route(method, pattern, handler) == [method |-> method, pattern |-> pattern, handler |-> handler]

Routes ==
    << Route("POST", <<>>, "create_recipe"),
       Route("GET", <<>>, "browse_recipes"),
       Route("GET", <<Param>>, "get_recipe"),
       Route("PUT", <<Param>>, "update_recipe"),
       Route("DELETE", <<Param>>, "delete_recipe"),
       Route("POST", <<Lit("favorite")>>, "add_favorite"),
       Route("DELETE", <<Lit("favorite"), Param>>, "remove_favorite"),
       Route("GET", <<Lit("favorites")>>, "list_favorites") >>

\* A path parameter matches any segment; a literal matches the same word
Matches(route, method, path) ==
    /\ route.method = method
    /\ Len(route.pattern) = Len(path)
    /\ \A i \in 1..Len(path) :
          \/ route.pattern[i].param
          \/ (~path[i].isInt /\ route.pattern[i].text = path[i].text)

\* The handler of the first route that matches
Dispatch(method, path) ==
    LET hits == {i \in 1..Len(Routes) : Matches(Routes[i], method, path)}
    IN  IF hits = {} THEN "not_found"
        ELSE Routes[CHOOSE i \in hits : \A j \in hits : i <= j].handler

----------------------------------------------------------------------------
(* recipe_router.py: the handlers *)

\* RecipeCreate bodies
RecipeFields ==
    { [title |-> "Omelet", description |-> "None",
       ingredients |-> <<"egg", "salt">>, instructions |-> <<"mix", "fry">>],
      [title |-> "Soup", description |-> "quick",
       ingredients |-> <<"water">>, instructions |-> <<"boil">>] }

\* RecipeUpdate bodies; "unset" marks the optional description left out
UpdateFields ==
    RecipeFields \cup {[f EXCEPT !.description = "unset"] : f \in RecipeFields}

RecipeResponse(id, r, is_favorite) ==
    [id |-> id, title |-> r.title, description |-> r.description,
     ingredients |-> r.ingredients, instructions |-> r.instructions,
     owner_id |-> r.owner_id, is_favorite |-> is_favorite]

\* The elements of a set of ids in ascending order
IdSeq(S) ==
    [i \in 1..Cardinality(S) |-> CHOOSE x \in S : Cardinality({y \in S : y < x}) = i - 1]

\* query.offset(skip).limit(limit)
Page(seq, skip, limit) ==
    SubSeq(seq, skip + 1, IF Len(seq) < skip + limit THEN Len(seq) ELSE skip + limit)

\* Variant of FavoriteIds: the join without the filter on the user
FavoriteIdsOfAnyone(rs, favs, user_id) ==
    {rid \in DOMAIN rs : \E u \in UserIds : BagIn(<<u, rid>>, favs)}

\* Variant of FavoriteIds: the collection read as empty
FavoriteIdsNotLoaded(rs, favs, user_id) == {}

\* select(Recipe.id).join(Recipe.favorited_by).where(User.id == user_id)
FavoriteIds(rs, favs, user_id) ==
    {rid \in DOMAIN rs : BagIn(<<user_id, rid>>, favs)}

\* POST /recipes/
create_recipe(token, fields) ==
    /\ Dispatch("POST", <<>>) = "create_recipe"
    /\ LET current_user == get_current_user(users, token, now)
           id == recipeSeq + 1
       IN  IF current_user = 0
           THEN /\ resp' = Status("create_recipe", 401, 0, 0)
                /\ UNCHANGED <<recipes, recipeSeq>>
           ELSE /\ recipeSeq' = id
                /\ recipes' = (id :> [title |-> fields.title,
                                      description |-> fields.description,
                                      ingredients |-> fields.ingredients,
                                      instructions |-> fields.instructions,
                                      owner_id |-> current_user]) @@ recipes
                /\ resp' = Listing("create_recipe", 201, current_user, id,
                                   <<RecipeResponse(id, recipes'[id], FALSE)>>)
    /\ UNCHANGED <<users, favorites, pending, now, issued, registered>>

\* The body of browse_recipes for a resolved viewer (0: current_user is None)
browse_body(current_user, skip, limit) ==
    LET page == Page(IdSeq(DOMAIN recipes), skip, limit)
        fav_ids == IF current_user # 0
                   THEN FavoriteIds(recipes, favorites, current_user)
                   ELSE {}
    IN  [i \in 1..Len(page) |-> RecipeResponse(page[i], recipes[page[i]], page[i] \in fav_ids)]

\* GET /recipes/
browse_recipes(token, skip, limit) ==
    /\ Dispatch("GET", <<>>) = "browse_recipes"
    /\ LET current_user == get_current_user(users, token, now)
           items == browse_body(current_user, skip, limit)
       IN  IF current_user = 0
           THEN resp' = Status("browse_recipes", 401, 0, 0)
           ELSE resp' = Listing("browse_recipes", 200, current_user, 0, items)
    /\ UNCHANGED <<users, recipes, recipeSeq, favorites, pending, now, issued, registered>>

\* The body of get_recipe
get_recipe_body(recipe_id, current_user) ==
    LET is_favorite == IF current_user # 0
                       THEN recipe_id \in FavoriteIds(recipes, favorites, current_user)
                       ELSE FALSE
    IN  <<RecipeResponse(recipe_id, recipes[recipe_id], is_favorite)>>

\* The body of list_favorites: current_user.favorites
list_favorites_body(current_user) ==
    LET favs == IdSeq(FavoriteIds(recipes, favorites, current_user))
    IN  [i \in 1..Len(favs) |-> RecipeResponse(favs[i], recipes[favs[i]], TRUE)]

\* GET /recipes/<segment>: get_recipe or list_favorites, as the routes decide
get_path(token, seg) ==
    /\ LET handler == Dispatch("GET", <<seg>>)
           current_user == get_current_user(users, token, now)
           at(r) == [r EXCEPT !.path = seg.text]
       IN  IF current_user = 0
           THEN resp' = at(Status(handler, 401, 0, seg.n))
           ELSE IF handler = "list_favorites"
           THEN resp' = at(Listing(handler, 200, current_user, 0,
                                   list_favorites_body(current_user)))
           ELSE IF ~seg.isInt
           THEN \* recipe_id: int does not parse
                resp' = at(Status(handler, 422, current_user, 0))
           ELSE IF seg.n \notin DOMAIN recipes
           THEN resp' = at(Status(handler, 404, current_user, seg.n))
           ELSE resp' = at(Listing(handler, 200, current_user, seg.n,
                                   get_recipe_body(seg.n, current_user)))
    /\ UNCHANGED <<users, recipes, recipeSeq, favorites, pending, now, issued, registered>>

\* recipe_update.dict(exclude_unset=True) applied with setattr
ApplyUpdate(r, fields) ==
    [r EXCEPT !.title = fields.title,
              !.description = IF fields.description = "unset" THEN @ ELSE fields.description,
              !.ingredients = fields.ingredients,
              !.instructions = fields.instructions]

\* Variant of IsOwner: any authenticated user passes
IsOwnerUnchecked(r, current_user) == current_user # 0

\* update_recipe and delete_recipe: may current_user change the recipe
IsOwner(r, current_user) == r.owner_id = current_user

\* PUT /recipes/{recipe_id}
update_recipe(token, recipe_id, fields) ==
    /\ Dispatch("PUT", <<IntSeg(recipe_id)>>) = "update_recipe"
    /\ LET current_user == get_current_user(users, token, now)
       IN  IF current_user = 0
           THEN /\ resp' = Status("update_recipe", 401, 0, recipe_id)
                /\ UNCHANGED recipes
           ELSE IF recipe_id \notin DOMAIN recipes
           THEN /\ resp' = Status("update_recipe", 404, current_user, recipe_id)
                /\ UNCHANGED recipes
           ELSE IF ~IsOwner(recipes[recipe_id], current_user)
           THEN /\ resp' = Status("update_recipe", 403, current_user, recipe_id)
                /\ UNCHANGED recipes
           ELSE /\ recipes' = [recipes EXCEPT ![recipe_id] = ApplyUpdate(@, fields)]
                /\ resp' = Listing("update_recipe", 200, current_user, recipe_id,
                                   <<RecipeResponse(recipe_id, recipes'[recipe_id], FALSE)>>)
    /\ UNCHANGED <<users, recipeSeq, favorites, pending, now, issued, registered>>

\* DELETE /recipes/{recipe_id} up to db.delete
DeleteCheck(token, recipe_id) ==
    /\ Dispatch("DELETE", <<IntSeg(recipe_id)>>) = "delete_recipe"
    /\ LET current_user == get_current_user(users, token, now)
       IN  IF current_user = 0
           THEN /\ resp' = Status("delete_recipe", 401, 0, recipe_id)
                /\ UNCHANGED pending
           ELSE IF recipe_id \notin DOMAIN recipes
           THEN /\ resp' = Status("delete_recipe", 404, current_user, recipe_id)
                /\ UNCHANGED pending
           ELSE IF ~IsOwner(recipes[recipe_id], current_user)
           THEN /\ resp' = Status("delete_recipe", 403, current_user, recipe_id)
                /\ UNCHANGED pending
           ELSE /\ Begin(Request("delete_recipe", current_user, recipe_id, "", <<>>, NoFields))
                /\ UNCHANGED resp
    /\ UNCHANGED <<users, recipes, recipeSeq, favorites, now, issued, registered>>

\* Variant of WithoutRecipe: the association rows are left behind
WithoutRecipeKept(favs, recipe_id) == favs

\* The association table once the flush of a deleted recipe removed its rows
WithoutRecipe(favs, recipe_id) ==
    LET keep == {row \in DOMAIN favs : row[2] # recipe_id}
    IN  [row \in keep |-> favs[row]]

\* delete_recipe from db.commit() on
DeleteCommit(req) ==
    /\ req.op = "delete_recipe"
    /\ BagIn(req, pending)
    /\ Finish(req)
    /\ IF req.rid \in DOMAIN recipes
       THEN /\ favorites' = WithoutRecipe(favorites, req.rid)
            /\ recipes' = [id \in DOMAIN recipes \ {req.rid} |-> recipes[id]]
       ELSE UNCHANGED <<favorites, recipes>>
    /\ resp' = Status("delete_recipe", 204, req.user, req.rid)
    /\ UNCHANGED <<users, recipeSeq, now, issued, registered>>

\* POST /recipes/favorite up to db.commit()
AddFavoriteCheck(token, recipe_id) ==
    /\ Dispatch("POST", <<WordSeg("favorite")>>) = "add_favorite"
    /\ LET current_user == get_current_user(users, token, now)
       IN  IF current_user = 0
           THEN /\ resp' = Status("add_favorite", 401, 0, recipe_id)
                /\ UNCHANGED pending
           ELSE IF recipe_id \notin DOMAIN recipes
           THEN /\ resp' = Status("add_favorite", 404, current_user, recipe_id)
                /\ UNCHANGED pending
           ELSE IF recipe_id \in FavoriteIds(recipes, favorites, current_user)
           THEN /\ resp' = Status("add_favorite", 201, current_user, recipe_id)
                /\ UNCHANGED pending
           ELSE /\ Begin(Request("add_favorite", current_user, recipe_id, "", <<>>, NoFields))
                /\ UNCHANGED resp
    /\ UNCHANGED <<users, recipes, recipeSeq, favorites, now, issued, registered>>

\* Variant of FavoriteInsertable: the table without its primary key
FavoriteInsertableNoKey(favs, us, rs, row) ==
    /\ row[1] \in 1..Len(us)
    /\ row[2] \in DOMAIN rs

\* favorites_table: composite primary key and both foreign keys admit the row
FavoriteInsertable(favs, us, rs, row) ==
    /\ ~BagIn(row, favs)
    /\ row[1] \in 1..Len(us)
    /\ row[2] \in DOMAIN rs

\* add_favorite from db.commit() on: the INSERT into favorites
AddFavoriteCommit(req) ==
    /\ req.op = "add_favorite"
    /\ BagIn(req, pending)
    /\ Finish(req)
    /\ IF FavoriteInsertable(favorites, users, recipes, <<req.user, req.rid>>)
       THEN /\ favorites' = favorites (+) SetToBag({<<req.user, req.rid>>})
            /\ resp' = Status("add_favorite", 201, req.user, req.rid)
       ELSE /\ resp' = Status("add_favorite", 500, req.user, req.rid)
            /\ UNCHANGED favorites
    /\ UNCHANGED <<users, recipes, recipeSeq, now, issued, registered>>

\* DELETE /recipes/favorite/{recipe_id} up to db.commit()
RemoveFavoriteCheck(token, recipe_id) ==
    /\ Dispatch("DELETE", <<WordSeg("favorite"), IntSeg(recipe_id)>>) = "remove_favorite"
    /\ LET current_user == get_current_user(users, token, now)
       IN  IF current_user = 0
           THEN /\ resp' = Status("remove_favorite", 401, 0, recipe_id)
                /\ UNCHANGED pending
           ELSE IF recipe_id \notin DOMAIN recipes
           THEN /\ resp' = Status("remove_favorite", 404, current_user, recipe_id)
                /\ UNCHANGED pending
           ELSE IF recipe_id \notin FavoriteIds(recipes, favorites, current_user)
           THEN /\ resp' = Status("remove_favorite", 204, current_user, recipe_id)
                /\ UNCHANGED pending
           ELSE /\ Begin(Request("remove_favorite", current_user, recipe_id, "", <<>>, NoFields))
                /\ UNCHANGED resp
    /\ UNCHANGED <<users, recipes, recipeSeq, favorites, now, issued, registered>>

\* remove_favorite from db.commit() on: the DELETE of the row
RemoveFavoriteCommit(req) ==
    /\ req.op = "remove_favorite"
    /\ BagIn(req, pending)
    /\ Finish(req)
    /\ IF BagIn(<<req.user, req.rid>>, favorites)
       THEN /\ favorites' = favorites (-) SetToBag({<<req.user, req.rid>>})
            /\ resp' = Status("remove_favorite", 204, req.user, req.rid)
       ELSE /\ resp' = Status("remove_favorite", 500, req.user, req.rid)
            /\ UNCHANGED favorites
    /\ UNCHANGED <<users, recipes, recipeSeq, now, issued, registered>>

\* One RecipeCreate body, for the runs where the content plays no part
SomeFields == CHOOSE f \in RecipeFields : f.title = "Omelet"

\* The tokens presented to the endpoints that require a user
AuthTokens == {NoToken} \cup UserTokens

----------------------------------------------------------------------------
Init ==
    /\ users = <<>>
    /\ recipes = <<>>
    /\ recipeSeq = 0
    /\ favorites = EmptyBag
    /\ pending = EmptyBag
    /\ now = 0
    /\ issued = [token |-> NoToken, delta |-> NoDelta, iat |-> 0, email |-> ""]
    /\ registered = [e \in Emails |-> 0]
    /\ resp = Status("none", 0, 0, 0)

\* One password that passes validation, for the runs where passwords play no part
SomePassword == <<1, 1, 1, 1, 1, 1>>

\* A new request is accepted while fewer than MaxInflight wait for their commit
Accepting == Inflight < MaxInflight

\* No request waits for its commit: requests are served one after the other
Idle == Inflight = 0

\* The recipes id sequence has ids left: for the runs with requests one after
\* the other, and for the runs with concurrent requests
IdsLeft == recipeSeq < MaxRecipes
IdsLeftConcurrent == recipeSeq < MaxRecipesConcurrent

NextAuth ==
    \/ /\ Accepting
       /\ \E email \in Emails, password \in Passwords : RegisterCheck(email, password)
    \/ \E req \in BagToSet(pending) : RegisterCommit(req)
    \/ \E email \in Emails, password \in Passwords : login(email, password)
    \/ \E token \in TokenDomain \cup {issued.token} : get_me(token)
    \/ Tick

\* Registration, login and whoami, concurrent, as time passes
SpecAuth == Init /\ [][NextAuth]_vars

NextToken ==
    \/ /\ Idle
       /\ \E email \in Emails : RegisterCheck(email, SomePassword)
    \/ \E req \in BagToSet(pending) : RegisterCommit(req)
    \/ \E user_id \in UserIds, expires_delta \in Deltas \cup {NoDelta} :
          IssueToken(user_id, expires_delta)
    \/ get_me(issued.token)
    \/ Tick

\* create_access_token called with every expires_delta, its tokens presented later
SpecToken == Init /\ [][NextToken]_vars

NextOwner ==
    \/ /\ Idle
       /\ \E email \in Emails : RegisterCheck(email, SomePassword)
    \/ \E req \in BagToSet(pending) : RegisterCommit(req)
    \/ /\ IdsLeftConcurrent
       /\ \E token \in AuthTokens, fields \in RecipeFields : create_recipe(token, fields)
    \/ \E token \in AuthTokens, rid \in RecipeIds, fields \in UpdateFields :
          update_recipe(token, rid, fields)
    \/ /\ Accepting
       /\ \E token \in AuthTokens, rid \in RecipeIds : DeleteCheck(token, rid)
    \/ \E req \in BagToSet(pending) : DeleteCommit(req)

\* Recipe create, update and delete by the registered users; deletes concurrent
SpecOwner == Init /\ [][NextOwner]_vars

NextRace ==
    \/ /\ Idle
       /\ \E email \in Emails : RegisterCheck(email, SomePassword)
    \/ \E req \in BagToSet(pending) : RegisterCommit(req)
    \/ /\ IdsLeftConcurrent
       /\ \E token \in AuthTokens : create_recipe(token, SomeFields)
    \/ /\ Accepting
       /\ \E token \in AuthTokens, rid \in RecipeIds : DeleteCheck(token, rid)
    \/ \E req \in BagToSet(pending) : DeleteCommit(req)
    \/ /\ Accepting
       /\ \E token \in AuthTokens, rid \in RecipeIds : AddFavoriteCheck(token, rid)
    \/ \E req \in BagToSet(pending) : AddFavoriteCommit(req)
    \/ /\ Accepting
       /\ \E token \in AuthTokens, rid \in RecipeIds : RemoveFavoriteCheck(token, rid)
    \/ \E req \in BagToSet(pending) : RemoveFavoriteCommit(req)

\* Favorites and recipe deletion with concurrent requests
SpecRace == Init /\ [][NextRace]_vars

PathSegments == {IntSeg(n) : n \in RecipeIds} \cup {WordSeg("favorites")}

Next ==
    \/ /\ Idle
       /\ \E email \in Emails : RegisterCheck(email, SomePassword)
    \/ \E req \in BagToSet(pending) : RegisterCommit(req)
    \/ /\ Idle /\ IdsLeft
       /\ \E token \in AuthTokens : create_recipe(token, SomeFields)
    \/ /\ Idle
       /\ \E token \in TokenDomain, skip \in {0, 1}, limit \in {1, DefaultLimit} :
             browse_recipes(token, skip, limit)
    \/ /\ Idle
       /\ \E token \in TokenDomain, seg \in PathSegments : get_path(token, seg)
    \/ /\ Idle
       /\ \E token \in AuthTokens, rid \in RecipeIds : DeleteCheck(token, rid)
    \/ \E req \in BagToSet(pending) : DeleteCommit(req)
    \/ /\ Idle
       /\ \E token \in AuthTokens, rid \in RecipeIds : AddFavoriteCheck(token, rid)
    \/ \E req \in BagToSet(pending) : AddFavoriteCommit(req)
    \/ /\ Idle
       /\ \E token \in AuthTokens, rid \in RecipeIds : RemoveFavoriteCheck(token, rid)
    \/ \E req \in BagToSet(pending) : RemoveFavoriteCommit(req)

\* Recipes, favorites and the read endpoints, requests served one after the other
Spec == Init /\ [][Next]_vars

----------------------------------------------------------------------------
(* Properties *)

\* This step sends a response of handler op without a commit
Answered(op) == resp'.op = op /\ resp' # resp /\ pending' = pending

\* This step is the commit of a waiting request of handler op
Committed(op) ==
    \E req \in BagToSet(pending) : req.op = op /\ pending' = pending (-) SetToBag({req})

Row(r) == <<r.actor, r.rid>>

\* C1: update and delete of a recipe by an authenticated user who is not its
\* owner answer 403 and leave the recipes table as it was; a recipe's row
\* changes or disappears only in the step that answers its owner's update (200)
\* or delete (204), and never changes owner.
C1_ForbiddenAnswered ==
    (/\ resp.op \in {"update_recipe", "delete_recipe"}
     /\ resp.actor # 0
     /\ resp.rid \in DOMAIN recipes
     /\ recipes[resp.rid].owner_id # resp.actor) => resp.status = 403

C1_OwnerOnlyStep ==
    /\ resp'.status = 403 => recipes' = recipes
    /\ \A rid \in DOMAIN recipes :
          (rid \notin DOMAIN recipes' \/ recipes'[rid] # recipes[rid]) =>
             /\ resp'.rid = rid
             /\ resp'.actor = recipes[rid].owner_id
             /\ \/ resp'.op = "update_recipe" /\ resp'.status = 200
                                              /\ rid \in DOMAIN recipes'
                                              /\ recipes'[rid].owner_id = recipes[rid].owner_id
                \/ resp'.op = "delete_recipe" /\ resp'.status = 204
                                              /\ rid \notin DOMAIN recipes'

C1_OwnerOnlyMutation == [](C1_ForbiddenAnswered) /\ [][C1_OwnerOnlyStep]_vars

\* C1 happens: a user who is not the owner was answered 403 for a recipe whose
\* owner had changed it before
C1_Witness ==
    /\ resp.op = "update_recipe"
    /\ resp.status = 403
    /\ resp.actor # 0
    /\ resp.rid \in DOMAIN recipes
    /\ recipes[resp.rid].owner_id # resp.actor
    /\ recipes[resp.rid].title = "Soup"
    /\ recipes[resp.rid].description = "None"

C3_AnonymousServed ==
    (/\ resp.op \in {"browse_recipes", "get_recipe"}
     /\ resp.actor = 0)
    => /\ resp.status # 401
       /\ \A i \in 1..Len(resp.items) : ~resp.items[i].is_favorite

\* C4: a token made with an expires_delta of zero or less expires no later than
\* it was issued and resolves to no user at any later time; only the omitted
\* expires_delta gives the default of ACCESS_TOKEN_EXPIRE_MINUTES.
C4_NonPositiveTtlExpired ==
    /\ (issued.delta # NoDelta /\ issued.delta[1] <= 0)
       => /\ issued.token.exp <= issued.iat
          /\ now > issued.iat => get_current_user(users, issued.token, now) = 0
    /\ (/\ issued.token # NoToken
        /\ issued.token.exp = issued.iat + ACCESS_TOKEN_EXPIRE_MINUTES)
       => issued.delta = NoDelta

\* C5: add_favorite for an existing recipe answers 201 whether or not the row is
\* there; afterwards the user's row for the recipe is there exactly once and the
\* rest of the relation is as before (the second call changes nothing).
C5_AddStep ==
    (/\ Answered("add_favorite") \/ Committed("add_favorite")
     /\ resp'.op = "add_favorite"
     /\ resp'.actor # 0
     /\ resp'.rid \in DOMAIN recipes)
    => /\ resp'.status = 201
       /\ favorites' = IF BagIn(Row(resp'), favorites)
                       THEN favorites
                       ELSE favorites (+) SetToBag({Row(resp')})
       /\ CopiesIn(Row(resp'), favorites') = 1

C6_UniqueEmails ==
    \A i, j \in 1..Len(users) : users[i].email = users[j].email => i = j

C6_RegisterStep ==
    /\ (Answered("register") /\ UsersByEmail(users, resp'.email) # {})
       => resp'.status = 400 /\ users' = users
    /\ (Committed("register") /\ UsersByEmail(users, resp'.email) # {})
       => resp'.status # 201 /\ users' = users
    /\ users' # users
       => /\ Committed("register")
          /\ resp'.status = 201
          /\ UsersByEmail(users, resp'.email) = {}
          /\ users' = Append(users, users'[Len(users')])
          /\ users'[Len(users')].email = resp'.email

C6_EmailUnique == [](C6_UniqueEmails) /\ [][C6_RegisterStep]_vars

\* C6 happens: of two registers for one email that both passed the existence
\* check, one committed and the other was rejected at its commit
C6_Witness ==
    /\ resp.op = "register"
    /\ resp.status = 500
    /\ Cardinality(UsersByEmail(users, resp.email)) = 1

\* C7: browse for a resolved viewer flags a returned recipe is_favorite exactly
\* when the viewer's own row for it is in the favorites table.
C7_BrowseFlagsOwnFavorites ==
    (resp.op = "browse_recipes" /\ resp.status = 200)
    => \A i \in 1..Len(resp.items) :
          resp.items[i].is_favorite <=> BagIn(<<resp.actor, resp.items[i].id>>, favorites)

\* C7 happens: one page shows a favorite of the viewer and, unflagged, a recipe
\* that only another user has as favorite
C7_Witness ==
    /\ resp.op = "browse_recipes"
    /\ resp.status = 200
    /\ \E i \in 1..Len(resp.items) : resp.items[i].is_favorite
    /\ \E i \in 1..Len(resp.items) :
          /\ ~resp.items[i].is_favorite
          /\ \E u \in UserIds : BagIn(<<u, resp.items[i].id>>, favorites)

\* C8: GET /recipes/favorites with a token that resolves to a user is answered
\* by list_favorites with exactly that user's favorites, each with
\* is_favorite = TRUE.
C8_FavoritesListed ==
    (resp.path = "favorites" /\ resp.actor # 0)
    => /\ resp.op = "list_favorites"
       /\ resp.status = 200
       /\ {resp.items[i].id : i \in 1..Len(resp.items)}
             = FavoriteIds(recipes, favorites, resp.actor)
       /\ \A i \in 1..Len(resp.items) : resp.items[i].is_favorite

\* C9: the favorites table never holds a (user_id, recipe_id) row twice; the
\* commit of an add_favorite that finds the row there inserts nothing.
C9_NoDuplicateRow == \A row \in BagToSet(favorites) : CopiesIn(row, favorites) = 1

C9_SecondInsertStep ==
    \A req \in BagToSet(pending) :
       (/\ req.op = "add_favorite"
        /\ pending' = pending (-) SetToBag({req})
        /\ BagIn(<<req.user, req.rid>>, favorites))
       => favorites' = favorites /\ resp'.status = 500

C9_ConcurrentAddOnce == [](C9_NoDuplicateRow) /\ [][C9_SecondInsertStep]_vars

\* C9 happens: two add_favorite requests of one user for one recipe both found
\* the row missing; the first commit inserted it, the second was rejected
C9_Witness ==
    /\ resp.op = "add_favorite"
    /\ resp.status = 500
    /\ CopiesIn(Row(resp), favorites) = 1

\* C10: every row of the favorites table names a recipe that exists.
C10_FavoritesReferToRecipes ==
    \A row \in BagToSet(favorites) : row[2] \in DOMAIN recipes

\* C10 happens: a recipe was deleted while a remove_favorite for its row waited,
\* so the row had been there
C10_Witness ==
    /\ resp.op = "delete_recipe"
    /\ resp.status = 204
    /\ resp.rid \notin DOMAIN recipes
    /\ \E req \in BagToSet(pending) : req.op = "remove_favorite" /\ req.rid = resp.rid
====
